---- MODULE Spec2Model ----
(***************************************************************************)
(* Model of src/main.py: the FastAPI waitlist backend.                     *)
(*                                                                         *)
(* The document store (module `database`: db, create_document,             *)
(* get_documents) and the payload schema (module `schemas`: Waitlist) are  *)
(* imported by main.py; their definitions here follow the specification.   *)
(*                                                                         *)
(* Python strings that the code slices, splits or measures are sequences   *)
(* of one-character strings.  Python values that may be None or absent     *)
(* are tagged records: Str(s), None, Absent, Num(n).                       *)
(***************************************************************************)
EXTENDS Naturals, Sequences, FiniteSets, TLC

(***************************************************************************)
(* Bounds of the model.                                                    *)
(***************************************************************************)
MaxRequests == 3
MaxEmailLen == 5
MaxErrLen == 52
MaxColls == 11

(***************************************************************************)
(* Numbers written in main.py.                                             *)
(***************************************************************************)
ErrChars == 50
ShownColls == 10
DefaultLimit == 5

(***************************************************************************)
(* Python values.                                                          *)
(***************************************************************************)
None == [t |-> "none"]
Absent == [t |-> "absent"]
Str(s) == [t |-> "str", v |-> s]
Num(n) == [t |-> "int", v |-> n]

IsStr(x) == x.t = "str"

Take(s, n) == SubSeq(s, 1, IF n < Len(s) THEN n ELSE Len(s))
Drop(s, n) == SubSeq(s, n + 1, Len(s))
Rep(ch, n) == [i \in 1..n |-> ch]
Min(a, b) == IF a < b THEN a ELSE b

RECURSIVE StringsUpTo(_, _)
StringsUpTo(alphabet, n) ==
    IF n = 0 THEN {<<>>}
    ELSE LET shorter == StringsUpTo(alphabet, n - 1)
         IN  shorter \cup {Append(s, ch) : s \in shorter, ch \in alphabet}

HIDDEN == <<"h","i","d","d","e","n">>
FRIEND == <<"F","r","i","e","n","d">>
DB_NOT_AVAILABLE ==
    <<"D","a","t","a","b","a","s","e"," ","n","o","t"," ",
      "a","v","a","i","l","a","b","l","e">>
INDEX_ERROR ==
    <<"s","t","r","i","n","g"," ","i","n","d","e","x"," ",
      "o","u","t"," ","o","f"," ","r","a","n","g","e">>

(***************************************************************************)
(* The result of evaluating Python code: a value, or a raised exception    *)
(* with its message, str(e).                                               *)
(***************************************************************************)
Return(v) == [ok |-> TRUE, v |-> v]
Raise(msg) == [ok |-> FALSE, msg |-> msg]

(***************************************************************************)
(* "@" in email, and email.split("@", 1).                                  *)
(***************************************************************************)
HasAt(s) == \E i \in 1..Len(s) : s[i] = "@"
FirstAt(s) == CHOOSE i \in 1..Len(s) : s[i] = "@" /\ \A j \in 1..(i - 1) : s[j] # "@"
SplitLocal(s) == SubSeq(s, 1, FirstAt(s) - 1)
SplitDomain(s) == Drop(s, FirstAt(s))

\* Variant of mask: splits at the last "@" (rsplit).
LastAt(s) == CHOOSE i \in 1..Len(s) : s[i] = "@" /\ \A j \in (i + 1)..Len(s) : s[j] # "@"
mask_rsplit(email) ==
    IF email.t # "str" \/ email.v = <<>> \/ ~HasAt(email.v)
    THEN Return(HIDDEN)
    ELSE LET name == SubSeq(email.v, 1, LastAt(email.v) - 1)
             domain == Drop(email.v, LastAt(email.v))
         IN  IF Len(name) = 0
             THEN Raise(INDEX_ERROR)
             ELSE LET masked ==
                          IF Len(name) <= 2
                          THEN <<name[1]>> \o <<"*">>
                          ELSE <<name[1]>> \o Rep("*", Len(name) - 2)
                                           \o <<name[Len(name)]>>
                  IN  Return(masked \o <<"@">> \o domain)

\* Variant of mask: an email without "@" is returned as stored.
mask_leaky(email) ==
    IF email.t # "str" \/ email.v = <<>>
    THEN Return(HIDDEN)
    ELSE IF ~HasAt(email.v)
    THEN Return(email.v)
    ELSE LET name == SplitLocal(email.v)
             domain == SplitDomain(email.v)
         IN  IF Len(name) = 0
             THEN Raise(INDEX_ERROR)
             ELSE LET masked ==
                          IF Len(name) <= 2
                          THEN <<name[1]>> \o <<"*">>
                          ELSE <<name[1]>> \o Rep("*", Len(name) - 2)
                                           \o <<name[Len(name)]>>
                  IN  Return(masked \o <<"@">> \o domain)

(***************************************************************************)
(* mask(email), main.py lines 97-105.  name[0] of an empty local part      *)
(* raises IndexError.                                                      *)
(***************************************************************************)
mask(email) ==
    IF email.t # "str" \/ email.v = <<>> \/ ~HasAt(email.v)
    THEN Return(HIDDEN)
    ELSE LET name == SplitLocal(email.v)
             domain == SplitDomain(email.v)
         IN  IF Len(name) = 0
             THEN Raise(INDEX_ERROR)
             ELSE LET masked ==
                          IF Len(name) <= 2
                          THEN <<name[1]>> \o <<"*">>
                          ELSE <<name[1]>> \o Rep("*", Len(name) - 2)
                                           \o <<name[Len(name)]>>
                  IN  Return(masked \o <<"@">> \o domain)

(***************************************************************************)
(* doc.get(key) and doc.get(key, default) on a stored document.            *)
(***************************************************************************)
Get(doc, key, default) == IF key \in DOMAIN doc THEN doc[key] ELSE default

\* Variant of sanitize_item: the stored name is ignored.
sanitize_item_friend(doc) ==
    [email |-> mask(Get(doc, "email", None)).v,
     name |-> Str(FRIEND),
     created_at |-> Get(doc, "created_at", None)]

(***************************************************************************)
(* The list comprehension of main.py lines 106-113: one item per document, *)
(* or the first exception raised while building the items.                 *)
(***************************************************************************)
sanitize_item(doc) ==
    [email |-> mask(Get(doc, "email", None)).v,
     name |-> Get(doc, "name", Str(FRIEND)),
     created_at |-> Get(doc, "created_at", None)]

sanitized(docs) ==
    IF \E i \in 1..Len(docs) : ~mask(Get(docs[i], "email", None)).ok
    THEN Raise(INDEX_ERROR)
    ELSE Return([i \in 1..Len(docs) |-> sanitize_item(docs[i])])

(***************************************************************************)
(* State.                                                                  *)
(*   db           the handle imported from `database`: "None" when the     *)
(*                store is not configured, "Database" for a client handle, *)
(*                "Faulty" for a handle whose attribute access raises      *)
(*   up           whether a call on the store succeeds now                 *)
(*   errText      str(e) of the exception a failing store call raises      *)
(*   env          whether DATABASE_URL / DATABASE_NAME are set             *)
(*   collections  names of the store's other collections (naturals >= 1;   *)
(*                0 stands for "waitlist")                                  *)
(*   waitlist     the documents of the waitlist collection, natural order  *)
(*   client       each client's request in flight and its last response    *)
(*   requests     number of requests issued so far                         *)
(*   hist         history: documents present at startup, inserts executed, *)
(*                POSTs answered 200, the payload behind each inserted     *)
(*                document, and per client the POSTs answered when its     *)
(*                request was issued and the inserts executed when it      *)
(*                called the store                                         *)
(***************************************************************************)
VARIABLES db, up, errText, env, collections, waitlist, client, requests, hist

vars == <<db, up, errText, env, collections, waitlist, client, requests, hist>>
store == <<db, errText, env, collections>>

\* Two clients, so that requests overlap.
Clients == {"c1", "c2"}

NoPayload == [email |-> Absent, name |-> Absent]
NoPending == [ok |-> TRUE, v |-> <<>>]
NoResp == [status |-> 0]
Idle == [pc |-> "idle", kind |-> "none", payload |-> NoPayload,
         limit |-> Absent, pending |-> NoPending, resp |-> NoResp]

(***************************************************************************)
(* Request inputs.                                                          *)
(***************************************************************************)
AL == <<"A","l">>
Payloads ==
    { [email |-> Str(<<"a","@","x">>), name |-> Absent],
      [email |-> Str(<<"a","@","x">>), name |-> Str(AL)],
      [email |-> Str(<<"@","x">>), name |-> Absent],
      [email |-> Absent, name |-> Str(AL)] }
Limits == {Absent, Num(1), Str(<<"x">>)}

(***************************************************************************)
(* FastAPI validates the declared parameters (payload: WaitlistCreate,     *)
(* limit: int) before it calls the handler, and answers 422 itself.        *)
(***************************************************************************)
ValidationError(req) ==
    \/ req.kind = "post" /\ ~(IsStr(req.payload.email) /\ req.payload.name.t \in {"str", "absent"})
    \/ req.kind = "recent" /\ req.limit.t \notin {"int", "absent"}

(***************************************************************************)
(* schemas.Waitlist: email required, name optional with default "Friend".  *)
(***************************************************************************)
Waitlist(payload) ==
    [email |-> payload.email,
     name |-> IF payload.name.t = "absent" THEN Str(FRIEND) ELSE payload.name]

(***************************************************************************)
(* The store adapter.  Every store call raises when the handle is unset    *)
(* or the store fails.                                                     *)
(***************************************************************************)
StoreCall(v) ==
    IF db = "None" THEN Raise(DB_NOT_AVAILABLE)
    ELSE IF db = "Faulty" \/ ~up THEN Raise(errText)
    ELSE Return(v)

Digit(n) == <<"0","1","2","3","4","5","6","7","8","9">>[n + 1]
RECURSIVE Decimal(_)
Decimal(n) == IF n < 10 THEN <<Digit(n)>> ELSE Append(Decimal(n \div 10), Digit(n % 10))

NewId == Len(waitlist) + 1
NewDocument(record) ==
    [k \in {"_id", "email", "name", "created_at"} |->
        CASE k = "_id" -> Num(NewId)
          [] k = "email" -> record.email
          [] k = "name" -> record.name
          [] k = "created_at" -> Num(NewId)]

\* create_document(collection, data) -> str(inserted_id)
create_document(data) == StoreCall(Decimal(NewId))
\* get_documents(collection, {}, limit): up to `limit` documents
get_documents(limit) == StoreCall(SubSeq(waitlist, 1, Min(limit, Len(waitlist))))
\* db["waitlist"].count_documents({})
count_documents == IF db = "Faulty" \/ ~up THEN Raise(errText) ELSE Return(Len(waitlist))
\* db.list_collection_names()
list_collection_names ==
    IF ~up THEN Raise(errText)
    ELSE Return(collections \o (IF waitlist # <<>> THEN <<0>> ELSE <<>>))

(***************************************************************************)
(* Responses.                                                              *)
(***************************************************************************)
Ok(body) == [status |-> 200, body |-> body]
HTTPException(status_code, detail) == [status |-> status_code, detail |-> detail]
Unprocessable == [status |-> 422]

Respond(c, r) ==
    client' = [client EXCEPT ![c].pc = "responded", ![c].resp = r]
Proceed(c, result) ==
    client' = [client EXCEPT ![c].pc = "stored", ![c].pending = result]
AtStore(c) == [hist EXCEPT !.atStore[c] = hist.inserts]

Running(c, kind) ==
    /\ client[c].pc = "called"
    /\ client[c].kind = kind
    /\ ~ValidationError(client[c])

(***************************************************************************)
(* A client issues a request.                                              *)
(***************************************************************************)
Call(c, kind, payload, limit) ==
    /\ client[c].pc \in {"idle", "responded"}
    /\ requests < MaxRequests
    /\ requests' = requests + 1
    /\ client' = [client EXCEPT ![c] = [Idle EXCEPT !.pc = "called", !.kind = kind,
                                             !.payload = payload, !.limit = limit]]
    /\ hist' = [hist EXCEPT !.before[c] = hist.answered, !.atStore[c] = 0]
    /\ UNCHANGED <<store, up, waitlist>>

(***************************************************************************)
(* The framework rejects a request whose parameters do not validate.       *)
(***************************************************************************)
RejectInvalid(c) ==
    /\ client[c].pc = "called"
    /\ ValidationError(client[c])
    /\ Respond(c, Unprocessable)
    /\ UNCHANGED <<store, up, waitlist, requests, hist>>

(***************************************************************************)
(* GET / and GET /api/hello, main.py lines 20-26.                          *)
(***************************************************************************)
read_root(c) ==
    /\ Running(c, "root")
    /\ Respond(c, Ok([message |-> "Hello from FastAPI Backend!"]))
    /\ UNCHANGED <<store, up, waitlist, requests, hist>>

hello(c) ==
    /\ Running(c, "hello")
    /\ Respond(c, Ok([message |-> "Hello from the backend API!"]))
    /\ UNCHANGED <<store, up, waitlist, requests, hist>>

(***************************************************************************)
(* GET /test, main.py lines 28-64.  The "database" field is a fixed label  *)
(* followed by text cut from the exception: [label, text].                 *)
(***************************************************************************)
\* Variant of ErrorLabel: the exception's text is not cut.
ErrorLabel_uncut(l, e) == [label |-> l, text |-> e]

Label(l) == [label |-> l, text |-> <<>>]
ErrorLabel(l, e) == [label |-> l, text |-> Take(e, ErrChars)]
EnvStatus(name) == IF env[name] THEN "Set" ELSE "Not Set"

test_initial ==
    [backend |-> "Running",
     database |-> Label("Not Available"),
     database_url |-> "None",
     database_name |-> "None",
     connection_status |-> "Not Connected",
     collections |-> <<>>]

\* lines 40-58: the two nested try blocks
test_introspect ==
    IF db = "None"
    THEN [test_initial EXCEPT !.database = Label("Available but not initialized")]
    ELSE IF db = "Faulty"
    THEN \* hasattr(db, 'name') raises: line 42 and 43 ran, line 44 did not
         [test_initial EXCEPT !.database_url = "Configured",
                              !.database = ErrorLabel("Error: ", errText)]
    ELSE LET connected == [test_initial EXCEPT !.database_url = "Configured",
                                               !.database_name = "db.name",
                                               !.connection_status = "Connected"]
             listing == list_collection_names
         IN  IF listing.ok
             THEN [connected EXCEPT !.collections = Take(listing.v, ShownColls),
                                    !.database = Label("Connected & Working")]
             ELSE [connected EXCEPT
                      !.database = ErrorLabel("Connected but Error: ", listing.msg)]

\* lines 61-62: the environment overrides both fields
test_response ==
    [test_introspect EXCEPT !.database_url = EnvStatus("DATABASE_URL"),
                            !.database_name = EnvStatus("DATABASE_NAME")]

test_database(c) ==
    /\ Running(c, "test")
    /\ Respond(c, Ok(test_response))
    /\ UNCHANGED <<store, up, waitlist, requests, hist>>

\* Variant of create_waitlist_entry: an email already stored is refused.
create_waitlist_entry_unique(c) ==
    /\ Running(c, "post")
    /\ LET record == Waitlist(client[c].payload)
           new_id == IF \E i \in 1..Len(waitlist) : Get(waitlist[i], "email", None) = record.email
                     THEN Raise(<<"d","u","p","l","i","c","a","t","e">>)
                     ELSE create_document(record)
       IN  IF new_id.ok
           THEN /\ waitlist' = Append(waitlist, NewDocument(record))
                /\ Proceed(c, new_id)
                /\ hist' = [AtStore(c) EXCEPT
                               !.inserts = hist.inserts + 1,
                               !.posted = Append(hist.posted, client[c].payload)]
           ELSE /\ Respond(c, HTTPException(500, new_id.msg))
                /\ UNCHANGED <<waitlist, hist>>
    /\ UNCHANGED <<store, up, requests>>

(***************************************************************************)
(* POST /waitlist, main.py lines 71-78: the insert, then the return.       *)
(***************************************************************************)
create_waitlist_entry(c) ==
    /\ Running(c, "post")
    /\ LET record == Waitlist(client[c].payload)
           new_id == create_document(record)
       IN  IF new_id.ok
           THEN /\ waitlist' = Append(waitlist, NewDocument(record))
                /\ Proceed(c, new_id)
                /\ hist' = [AtStore(c) EXCEPT
                               !.inserts = hist.inserts + 1,
                               !.posted = Append(hist.posted, client[c].payload)]
           ELSE /\ Respond(c, HTTPException(500, new_id.msg))
                /\ UNCHANGED <<waitlist, hist>>
    /\ UNCHANGED <<store, up, requests>>

create_waitlist_entry_return(c) ==
    /\ client[c].pc = "stored"
    /\ client[c].kind = "post"
    /\ Respond(c, Ok([id |-> client[c].pending.v,
                      message |-> "Thanks for joining the waitlist!"]))
    /\ hist' = [hist EXCEPT !.answered = hist.answered + 1]
    /\ UNCHANGED <<store, up, waitlist, requests>>

\* Variant of get_waitlist_count: counts with a filter instead of {}.
get_waitlist_count_filtered(c) ==
    /\ Running(c, "count")
    /\ LET matching == Cardinality({i \in 1..Len(waitlist) : "created_at" \in DOMAIN waitlist[i]})
           count == IF db = "None" THEN Raise(DB_NOT_AVAILABLE)
                    ELSE IF count_documents.ok THEN Return(matching) ELSE count_documents
       IN  IF count.ok
           THEN Proceed(c, count) /\ hist' = AtStore(c)
           ELSE Respond(c, HTTPException(500, count.msg)) /\ UNCHANGED hist
    /\ UNCHANGED <<store, up, waitlist, requests>>

\* Variant of get_waitlist_count: the failure is reported as 503.
get_waitlist_count_503(c) ==
    /\ Running(c, "count")
    /\ LET count == IF db = "None" THEN Raise(DB_NOT_AVAILABLE) ELSE count_documents
       IN  IF count.ok
           THEN Proceed(c, count) /\ hist' = AtStore(c)
           ELSE Respond(c, HTTPException(503, count.msg)) /\ UNCHANGED hist
    /\ UNCHANGED <<store, up, waitlist, requests>>

(***************************************************************************)
(* GET /waitlist/count, main.py lines 80-89.                               *)
(***************************************************************************)
get_waitlist_count(c) ==
    /\ Running(c, "count")
    /\ LET count == IF db = "None" THEN Raise(DB_NOT_AVAILABLE) ELSE count_documents
       IN  IF count.ok
           THEN Proceed(c, count) /\ hist' = AtStore(c)
           ELSE Respond(c, HTTPException(500, count.msg)) /\ UNCHANGED hist
    /\ UNCHANGED <<store, up, waitlist, requests>>

get_waitlist_count_return(c) ==
    /\ client[c].pc = "stored"
    /\ client[c].kind = "count"
    /\ Respond(c, Ok([count |-> client[c].pending.v]))
    /\ UNCHANGED <<store, up, waitlist, requests, hist>>

(***************************************************************************)
(* GET /waitlist/recent, main.py lines 91-116.                             *)
(***************************************************************************)
LimitOf(req) == IF req.limit.t = "absent" THEN DefaultLimit ELSE req.limit.v

\* Variant of get_recent_waitlist: the fetched documents are removed.
get_recent_waitlist_consuming(c) ==
    /\ Running(c, "recent")
    /\ LET docs == get_documents(LimitOf(client[c]))
       IN  IF docs.ok
           THEN /\ Proceed(c, docs)
                /\ hist' = AtStore(c)
                /\ waitlist' = Drop(waitlist, Len(docs.v))
           ELSE /\ Respond(c, HTTPException(500, docs.msg))
                /\ UNCHANGED <<hist, waitlist>>
    /\ UNCHANGED <<store, up, requests>>

get_recent_waitlist(c) ==
    /\ Running(c, "recent")
    /\ LET docs == get_documents(LimitOf(client[c]))
       IN  IF docs.ok
           THEN Proceed(c, docs) /\ hist' = AtStore(c)
           ELSE Respond(c, HTTPException(500, docs.msg)) /\ UNCHANGED hist
    /\ UNCHANGED <<store, up, waitlist, requests>>

get_recent_waitlist_return(c) ==
    /\ client[c].pc = "stored"
    /\ client[c].kind = "recent"
    /\ LET items == sanitized(client[c].pending.v)
       IN  IF items.ok
           THEN Respond(c, Ok([items |-> items.v]))
           ELSE Respond(c, HTTPException(500, items.msg))
    /\ UNCHANGED <<store, up, waitlist, requests, hist>>

(***************************************************************************)
(* The store goes down or comes back.                                      *)
(***************************************************************************)
StoreFlip ==
    /\ db # "None"
    /\ up' = ~up
    /\ UNCHANGED <<store, waitlist, client, requests, hist>>

(***************************************************************************)
(* Specifications.                                                         *)
(***************************************************************************)
InitCommon ==
    /\ client = [c \in Clients |-> Idle]
    /\ requests = 0
    /\ hist = [seeded |-> Len(waitlist), inserts |-> 0, answered |-> 0,
               posted |-> <<>>, before |-> [c \in Clients |-> 0],
               atStore |-> [c \in Clients |-> 0]]

\* A document written to the collection by an earlier deployment: it has
\* neither a name nor a created_at.
LEGACY == [k \in {"_id", "email"} |->
              IF k = "_id" THEN Num(1) ELSE Str(<<"b","@","y">>)]

\* The whole API, against a collection that is empty or holds one older
\* document.
Init ==
    /\ db \in {"None", "Database"}
    /\ up = TRUE
    /\ errText = <<"d","o","w","n">>
    /\ env = [DATABASE_URL |-> TRUE, DATABASE_NAME |-> TRUE]
    /\ collections = <<>>
    /\ waitlist \in {<<>>, <<LEGACY>>}
    /\ InitCommon

Next ==
    \/ \E c \in Clients, p \in Payloads : Call(c, "post", p, Absent)
    \/ \E c \in Clients, l \in Limits : Call(c, "recent", NoPayload, l)
    \/ \E c \in Clients, k \in {"root", "hello", "test", "count"} :
           Call(c, k, NoPayload, Absent)
    \/ \E c \in Clients : RejectInvalid(c)
    \/ \E c \in Clients : read_root(c)
    \/ \E c \in Clients : hello(c)
    \/ \E c \in Clients : test_database(c)
    \/ \E c \in Clients : create_waitlist_entry(c)
    \/ \E c \in Clients : create_waitlist_entry_return(c)
    \/ \E c \in Clients : get_waitlist_count(c)
    \/ \E c \in Clients : get_waitlist_count_return(c)
    \/ \E c \in Clients : get_recent_waitlist(c)
    \/ \E c \in Clients : get_recent_waitlist_return(c)
    \/ StoreFlip

Spec == Init /\ [][Next]_vars

(***************************************************************************)
(* GET /test in every store state: handle unset, working, failing,         *)
(* faulty; error texts shorter and longer than the cut; fewer and more     *)
(* collections than are shown.                                             *)
(***************************************************************************)
ErrTexts == {[i \in 1..n |-> Digit(i % 10)] : n \in {0, 1, ErrChars, MaxErrLen}}
CollLists == {[i \in 1..n |-> i] : n \in {0, 3, ShownColls, MaxColls}}

InitTest ==
    /\ db \in {"None", "Database", "Faulty"}
    /\ up \in BOOLEAN
    /\ errText \in ErrTexts
    /\ env \in [{"DATABASE_URL", "DATABASE_NAME"} -> BOOLEAN]
    /\ collections \in CollLists
    /\ waitlist \in {<<>>, <<LEGACY>>}
    /\ InitCommon

NextTest ==
    \/ \E c \in Clients : Call(c, "test", NoPayload, Absent)
    \/ \E c \in Clients : test_database(c)
    \/ StoreFlip

SpecTest == InitTest /\ [][NextTest]_vars

(***************************************************************************)
(* GET /waitlist/recent over a stored document of any shape: the email     *)
(* missing, null, or any string over {a, b, @} up to MaxEmailLen.          *)
(***************************************************************************)
SeedEmails == {Absent, None} \cup {Str(s) : s \in StringsUpTo({"a", "b", "@"}, MaxEmailLen)}
SeedRest == { [name |-> Absent, created_at |-> Absent],
              [name |-> Str(AL), created_at |-> Num(7)],
              [name |-> None, created_at |-> None] }
SeedDoc(email, rest) ==
    LET fields == [_id |-> Num(1), email |-> email, name |-> rest.name,
                   created_at |-> rest.created_at]
        keys == {k \in DOMAIN fields : fields[k].t # "absent"}
    IN  [k \in keys |-> fields[k]]
SeedDocs == {SeedDoc(e, r) : e \in SeedEmails, r \in SeedRest}

InitSeeded ==
    /\ db = "Database"
    /\ up = TRUE
    /\ errText = <<"d","o","w","n">>
    /\ env = [DATABASE_URL |-> TRUE, DATABASE_NAME |-> TRUE]
    /\ collections = <<>>
    /\ waitlist \in {<<d>> : d \in SeedDocs}
    /\ InitCommon

NextSeeded ==
    \/ \E c \in Clients, l \in Limits : Call(c, "recent", NoPayload, l)
    \/ \E c \in Clients : RejectInvalid(c)
    \/ \E c \in Clients : get_recent_waitlist(c)
    \/ \E c \in Clients : get_recent_waitlist_return(c)

SpecSeeded == InitSeeded /\ [][NextSeeded]_vars

(***************************************************************************)
(* Properties.                                                             *)
(***************************************************************************)
Done(c, kind) == client[c].pc = "responded" /\ client[c].kind = kind
Answered(c, kind) == Done(c, kind) /\ client[c].resp.status = 200
Returns(c, kind) ==
    client[c].pc = "stored" /\ client[c].kind = kind /\ client'[c].pc = "responded"
Handles(c, kind) == Running(c, kind) /\ client'[c].pc # "called"
Available == db = "Database" /\ up
PostsInFlight == Cardinality({c \in Clients : client[c].pc = "stored" /\ client[c].kind = "post"})

\* C1 as stated: a successful GET /waitlist/count returns the number of
\* POST /waitlist requests that completed successfully before it (on top of
\* the documents the collection held at startup), whether "before it" is
\* read as before the count was issued or before it returned.
C1_CountIsCompletedPosts ==
    [][\A c \in Clients :
          Returns(c, "count") =>
              client'[c].resp.body.count \in
                  {hist.seeded + hist.before[c], hist.seeded + hist.answered}]_vars

\* C1 amended: a successful GET /waitlist/count returns the number of
\* documents in the collection at the moment it calls the store: those
\* present at startup plus one per insert executed by then.  That number
\* includes every POST answered before the count was issued, and may
\* include a POST that has inserted and not yet returned.  Every insert
\* belongs to exactly one POST, answered 200 or about to be.
C1_CountIsInsertsAtRead ==
    /\ hist.inserts = hist.answered + PostsInFlight
    /\ Len(waitlist) = hist.seeded + hist.inserts
    /\ \A c \in Clients :
          Answered(c, "count") =>
              /\ client[c].resp.body.count = hist.seeded + hist.atStore[c]
              /\ client[c].resp.body.count >= hist.seeded + hist.before[c]
              /\ client[c].resp.body.count <= Len(waitlist)

\* A count that includes a POST which has not returned yet.
C1_Witness ==
    \E c \in Clients :
        /\ Answered(c, "count")
        /\ client[c].resp.body.count > hist.seeded + hist.answered

\* C2: a valid POST /waitlist against an available store appends exactly
\* one document carrying the payload's email, leaves the others as they
\* were, and returns 200 with a non-empty id and the fixed message; an
\* email that is already stored makes no difference.
C2_PostAddsOneEntry ==
    [][\A c \in Clients :
          /\ (Handles(c, "post") /\ Available) =>
                 /\ client'[c].pc = "stored"
                 /\ Len(waitlist') = Len(waitlist) + 1
                 /\ SubSeq(waitlist', 1, Len(waitlist)) = waitlist
                 /\ waitlist'[Len(waitlist')]["email"] = client[c].payload.email
          /\ Returns(c, "post") =>
                 /\ client'[c].resp.status = 200
                 /\ client'[c].resp.body.id # <<>>
                 /\ client'[c].resp.body.message = "Thanks for joining the waitlist!"
                 /\ waitlist' = waitlist]_vars

\* Two POSTs with the same email, both answered 200, both stored.
C2_Witness ==
    /\ \A c \in Clients : Answered(c, "post")
    /\ \E i, j \in 1..Len(waitlist) :
          /\ i < j
          /\ i > hist.seeded
          /\ waitlist[i]["email"] = waitlist[j]["email"]

WaitlistKinds == {"post", "count", "recent"}
SomeEmptyLocal(docs) == \E i \in 1..Len(docs) : ~mask(Get(docs[i], "email", None)).ok

\* C3 as stated: every response of a waitlist handler that is not a success
\* is HTTP 500.
C3_EveryFailureIs500 ==
    \A c \in Clients :
        (client[c].pc = "responded" /\ client[c].kind \in WaitlistKinds
            /\ client[c].resp.status # 200)
        => client[c].resp.status = 500

\* C3 amended: a failure inside a waitlist handler is reported as HTTP 500
\* with the exception's message as detail: the store adapter's or the
\* store's message for a failed insert, count or fetch, "Database not
\* available" for a count with the handle unset (and then never 200), the
\* IndexError's message for a failed transform.  A request whose body or
\* limit does not validate is answered 422 by the framework, and only such
\* a request is.
C3_HandlerFailureIs500 ==
    \A c \in Clients :
        (client[c].pc = "responded" /\ client[c].kind \in WaitlistKinds) =>
            LET r == client[c].resp
            IN  /\ r.status \in {200, 422, 500}
                /\ (r.status = 422) = ValidationError(client[c])
                /\ (db = "None" /\ r.status # 422) =>
                       r.status = 500 /\ r.detail = DB_NOT_AVAILABLE
                /\ (db # "None" /\ r.status = 500) =>
                       IF client[c].kind = "recent" /\ client[c].pending.v # <<>>
                       THEN r.detail = INDEX_ERROR /\ SomeEmptyLocal(client[c].pending.v)
                       ELSE r.detail = errText

\* A count refused because the handle is unset.
C3_Witness ==
    \E c \in Clients :
        /\ Done(c, "count")
        /\ db = "None"
        /\ client[c].resp.status = 500
        /\ client[c].resp.detail = DB_NOT_AVAILABLE

IsPrefix(p, s, n) ==
    /\ Len(p) = Min(Len(s), n)
    /\ \A i \in 1..Len(p) : p[i] = s[i]
Listing == collections \o (IF waitlist # <<>> THEN <<0>> ELSE <<>>)

\* C4: GET /test answers 200 with the status object in every store state.
\* An exception while introspecting shows only in "database", as a label
\* followed by the first 50 characters of its text; "collections" holds the
\* first 10 names of the listing, or none when the listing was not made;
\* database_url and database_name report the environment.
C4_TestNeverFails ==
    [][\A c \in Clients :
          Handles(c, "test") =>
              LET r == client'[c].resp
                  b == r.body
              IN  /\ r.status = 200
                  /\ b.backend = "Running"
                  /\ b.database_url = (IF env["DATABASE_URL"] THEN "Set" ELSE "Not Set")
                  /\ b.database_name = (IF env["DATABASE_NAME"] THEN "Set" ELSE "Not Set")
                  /\ Len(b.collections) <= ShownColls
                  /\ Len(b.database.text) <= ErrChars
                  /\ CASE db = "None" ->
                            /\ b.database = [label |-> "Available but not initialized", text |-> <<>>]
                            /\ b.connection_status = "Not Connected"
                            /\ b.collections = <<>>
                       [] db = "Faulty" ->
                            /\ b.database.label = "Error: "
                            /\ IsPrefix(b.database.text, errText, ErrChars)
                            /\ b.connection_status = "Not Connected"
                            /\ b.collections = <<>>
                       [] db = "Database" /\ ~up ->
                            /\ b.database.label = "Connected but Error: "
                            /\ IsPrefix(b.database.text, errText, ErrChars)
                            /\ b.connection_status = "Connected"
                            /\ b.collections = <<>>
                       [] db = "Database" /\ up ->
                            /\ b.database = [label |-> "Connected & Working", text |-> <<>>]
                            /\ b.connection_status = "Connected"
                            /\ IsPrefix(b.collections, Listing, ShownColls)]_vars

\* One answer whose error text was cut, another whose listing was cut.
C4_Witness ==
    /\ Len(errText) > ErrChars
    /\ Len(Listing) > ShownColls
    /\ \E c, d \in Clients :
          /\ Answered(c, "test")
          /\ Answered(d, "test")
          /\ client[c].resp.body.database.label = "Connected but Error: "
          /\ Len(client[c].resp.body.database.text) = ErrChars
          /\ Len(client[d].resp.body.collections) = ShownColls

IsAddress(e) == e.t = "str" /\ HasAt(e.v)
LocalLen(e) == FirstAt(e.v) - 1
Fetched(c) == client[c].pending.v
EmailOf(doc) == Get(doc, "email", None)

\* C5: in GET /waitlist/recent, a stored email with "@" whose local part has
\* length 0, 1 or 2 is returned as the first character of the local part,
\* one "*", "@" and the domain unchanged.
C5_ShortLocalMasked ==
    \A c \in Clients :
        (Done(c, "recent") /\ ~ValidationError(client[c])) =>
            \A i \in 1..Len(Fetched(c)) :
                LET e == EmailOf(Fetched(c)[i])
                IN  (IsAddress(e) /\ LocalLen(e) <= 2) =>
                        /\ client[c].resp.status = 200
                        /\ LET m == client[c].resp.body.items[i].email
                           IN  /\ Len(m) = 3 + Len(e.v) - FirstAt(e.v)
                               /\ LocalLen(e) >= 1 => m[1] = e.v[1]
                               /\ m[2] = "*"
                               /\ m[3] = "@"
                               /\ Drop(m, 3) = Drop(e.v, FirstAt(e.v))

\* C6: in a successful GET /waitlist/recent, a stored email whose local part
\* has length L > 2 is returned with the same length, every character
\* strictly between the first and the L-th replaced by "*", and every other
\* character (the first, the L-th, the first "@" and all after it) unchanged.
C6_LongLocalMasked ==
    \A c \in Clients :
        Answered(c, "recent") =>
            \A i \in 1..Len(Fetched(c)) :
                LET e == EmailOf(Fetched(c)[i])
                    m == client[c].resp.body.items[i].email
                IN  (IsAddress(e) /\ LocalLen(e) > 2) =>
                        /\ Len(m) = Len(e.v)
                        /\ \A j \in 1..Len(m) :
                              m[j] = IF 1 < j /\ j < LocalLen(e) THEN "*" ELSE e.v[j]

\* A masked email whose local part is longer than 2 and whose domain holds "@".
C6_Witness ==
    \E c \in Clients :
        /\ Answered(c, "recent")
        /\ Len(Fetched(c)) = 1
        /\ LET e == EmailOf(Fetched(c)[1])
           IN  /\ IsAddress(e)
               /\ LocalLen(e) > 2
               /\ HasAt(Drop(e.v, FirstAt(e.v)))
               /\ e.v[1] # e.v[LocalLen(e)]

\* C7: in a successful GET /waitlist/recent, a record whose email is missing,
\* null, empty or without "@" is returned with the email "hidden".
C7_NoAddressHidden ==
    \A c \in Clients :
        Answered(c, "recent") =>
            \A i \in 1..Len(Fetched(c)) :
                LET e == EmailOf(Fetched(c)[i])
                IN  ("email" \notin DOMAIN Fetched(c)[i] \/ ~IsAddress(e)) =>
                        client[c].resp.body.items[i].email = HIDDEN

\* An answer for a record whose email is a non-empty string without "@".
C7_Witness ==
    \E c \in Clients :
        /\ Answered(c, "recent")
        /\ Len(Fetched(c)) = 1
        /\ EmailOf(Fetched(c)[1]).t = "str"
        /\ Len(EmailOf(Fetched(c)[1]).v) >= 2
        /\ ~HasAt(EmailOf(Fetched(c)[1]).v)
        /\ client[c].resp.body.items[1].email = HIDDEN

\* C8: GET /waitlist/recent with limit k >= 1 (5 when absent) against an
\* available store holding n documents fetches min(k, n) of them and
\* returns 200 with one item per fetched document, each with exactly the
\* fields email, name and created_at.
C8_RecentReturnsMinItems ==
    [][\A c \in Clients :
          /\ (Handles(c, "recent") /\ Available) =>
                 /\ client'[c].pc = "stored"
                 /\ Len(client'[c].pending.v) = Min(LimitOf(client[c]), Len(waitlist))
          /\ Returns(c, "recent") =>
                 /\ client'[c].resp.status = 200
                 /\ Len(client'[c].resp.body.items) = Len(Fetched(c))
                 /\ \A i \in 1..Len(Fetched(c)) :
                       DOMAIN client'[c].resp.body.items[i] = {"email", "name", "created_at"}]_vars

\* C9: in a successful GET /waitlist/recent, the item of an entry created by
\* POST /waitlist shows the posted name, or "Friend" when none was posted;
\* created_at is the stored value, and null when the record has none; a
\* record without a name shows "Friend".
C9_NameAndCreatedAt ==
    \A c \in Clients :
        Answered(c, "recent") =>
            \A i \in 1..Len(Fetched(c)) :
                LET doc == Fetched(c)[i]
                    item == client[c].resp.body.items[i]
                    n == doc["_id"].v
                IN  /\ n > hist.seeded =>
                           LET p == hist.posted[n - hist.seeded]
                           IN  /\ item.name = (IF p.name.t = "absent" THEN Str(FRIEND) ELSE p.name)
                               /\ item.created_at = waitlist[n]["created_at"]
                               /\ item.created_at.t = "int"
                    /\ "name" \notin DOMAIN doc => item.name = Str(FRIEND)
                    /\ "created_at" \notin DOMAIN doc => item.created_at = None

\* One answer listing an older record without created_at, an entry posted
\* without a name and an entry posted with one.
C9_Witness ==
    \E c \in Clients :
        /\ Answered(c, "recent")
        /\ Len(Fetched(c)) = 3
        /\ hist.seeded = 1
        /\ hist.posted[1].name = Absent
        /\ hist.posted[2].name = Str(AL)
        /\ client[c].resp.body.items[1].created_at = None
        /\ client[c].resp.body.items[2].name = Str(FRIEND)
        /\ client[c].resp.body.items[3].name = Str(AL)

CountOf(c) == client[c].resp.body.count

\* C10: the handle is never reassigned; the stored documents are never
\* changed or removed; only the insert of a POST /waitlist adds one; every
\* other step of every handler, and a POST that fails, leaves the collection
\* as it was.  Hence a count taken after an earlier count was answered is
\* not smaller, and is equal when no insert happened in between.
C10_CollectionOnlyGrows ==
    [][/\ db' = db
       /\ Len(waitlist') >= Len(waitlist)
       /\ SubSeq(waitlist', 1, Len(waitlist)) = waitlist
       /\ waitlist' # waitlist =>
              /\ Len(waitlist') = Len(waitlist) + 1
              /\ \E c \in Clients : Handles(c, "post") /\ client'[c].pc = "stored"
       /\ \A c \in Clients :
            /\ (client[c].kind # "post" /\ client[c].pc \in {"called", "stored"}
                   /\ client'[c].pc # client[c].pc) => waitlist' = waitlist
            /\ (client[c].pc # "responded" /\ client'[c].pc = "responded"
                   /\ client'[c].resp.status # 200) => waitlist' = waitlist
            /\ (Handles(c, "count") /\ client'[c].pc = "stored") =>
                   \A d \in Clients :
                       Answered(d, "count") =>
                           /\ CountOf(d) <= client'[c].pending.v
                           /\ hist.atStore[d] = hist.inserts =>
                                  CountOf(d) = client'[c].pending.v]_vars

\* Two answered counts with an insert between them.
C10_Witness ==
    \E c, d \in Clients :
        /\ Answered(c, "count")
        /\ Answered(d, "count")
        /\ CountOf(c) < CountOf(d)

====
